---- MODULE Spec2Model ----
(***************************************************************************)
(* A model of SimpleTOTP (src/TOTP.py): the secret decoder key_check, the  *)
(* counter encoder int_to_bytestring and the token generator get_key.      *)
(*                                                                         *)
(* Representation.  A Python str is a sequence of one-character strings,   *)
(* a bytes object a sequence of numbers 0..255.  Python integers are       *)
(* unbounded; the two that outgrow a machine word are kept as digit        *)
(* sequences: the counter handed to int_to_bytestring is a two's           *)
(* complement number in base 2^16 with an infinite sign extension, the     *)
(* integer read from the digest is its base-16 digits.                     *)
(***************************************************************************)
EXTENDS Integers, Sequences, FiniteSets, TLC

(***************************************************************************)
(* Sequences                                                               *)
(***************************************************************************)
Take(s, n) == SubSeq(s, 1, IF n < Len(s) THEN n ELSE Len(s))

Drop(s, n) == SubSeq(s, n + 1, Len(s))

Reverse(s) == [j \in 1..Len(s) |-> s[Len(s) + 1 - j]]

Repeat(x, n) == [j \in 1..n |-> x]

Range(s) == {s[j] : j \in 1..Len(s)}

(***************************************************************************)
(* str methods used by key_check and by base64.b32decode                   *)
(***************************************************************************)
LowerCase == <<"a", "b", "c", "d", "e", "f", "g", "h", "i", "j", "k", "l", "m",
               "n", "o", "p", "q", "r", "s", "t", "u", "v", "w", "x", "y", "z">>

UpperCase == <<"A", "B", "C", "D", "E", "F", "G", "H", "I", "J", "K", "L", "M",
               "N", "O", "P", "Q", "R", "S", "T", "U", "V", "W", "X", "Y", "Z">>

\* The RFC 4648 alphabet of base64.b32decode: value v is written B32Alphabet[v + 1].
B32Alphabet == UpperCase \o <<"2", "3", "4", "5", "6", "7">>

IndexOf(ch, tab) == CHOOSE j \in 1..Len(tab) : tab[j] = ch

\* str.upper on one character
UpperChar(ch) == IF ch \in Range(LowerCase) THEN UpperCase[IndexOf(ch, LowerCase)] ELSE ch

\* str.lower on one character
LowerChar(ch) == IF ch \in Range(UpperCase) THEN LowerCase[IndexOf(ch, UpperCase)] ELSE ch

Upper(s) == [j \in 1..Len(s) |-> UpperChar(s[j])]

Lower(s) == [j \in 1..Len(s) |-> LowerChar(s[j])]

\* s.replace(ch, '')
RECURSIVE Remove(_, _)
Remove(s, ch) ==
    IF s = <<>> THEN <<>>
    ELSE IF Head(s) = ch THEN Remove(Tail(s), ch)
    ELSE <<Head(s)>> \o Remove(Tail(s), ch)

\* s.rstrip(ch)
RECURSIVE RStrip(_, _)
RStrip(s, ch) ==
    IF s # <<>> /\ s[Len(s)] = ch THEN RStrip(SubSeq(s, 1, Len(s) - 1), ch) ELSE s

(***************************************************************************)
(* base64.b32decode(s, casefold), the standard library's decoder that      *)
(* key_check calls.  An accumulator of up to 40 bits is kept as its bits.  *)
(***************************************************************************)
Pow2(n) == 2 ^ n

\* the w low bits of v, most significant first
Bits(v, w) == [j \in 1..w |-> (v \div Pow2(w - j)) % 2]

RECURSIVE BitsValue(_)
BitsValue(b) == IF b = <<>> THEN 0 ELSE 2 * BitsValue(SubSeq(b, 1, Len(b) - 1)) + b[Len(b)]

\* acc = (acc << 5) + b32rev[c] over the characters of one quantum
RECURSIVE QuantumBits(_)
QuantumBits(q) ==
    IF q = <<>> THEN <<>>
    ELSE Bits(IndexOf(Head(q), B32Alphabet) - 1, 5) \o QuantumBits(Tail(q))

\* acc.to_bytes(5): the accumulator as 5 big-endian bytes
ToBytes5(bits) ==
    LET full == Repeat(0, 40 - Len(bits)) \o bits
    IN  [j \in 1..5 |-> BitsValue(SubSeq(full, 8 * j - 7, 8 * j))]

\* the loop over the quanta: decoded += acc.to_bytes(5)
RECURSIVE DecodeQuanta(_)
DecodeQuanta(s) ==
    IF s = <<>> THEN <<>>
    ELSE ToBytes5(QuantumBits(Take(s, 8))) \o DecodeQuanta(Drop(s, 8))

\* the accumulator left by the loop: that of the last quantum
LastAcc(s) == QuantumBits(Drop(s, 8 * ((Len(s) - 1) \div 8)))

ValidPadChars == {0, 1, 3, 4, 6}

Raise(m) == [ok |-> FALSE, val |-> <<>>, msg |-> m]

Value(v) == [ok |-> TRUE, val |-> v, msg |-> ""]

B32Decode(text, casefold) ==
    IF Len(text) % 8 # 0 THEN Raise("Incorrect padding")
    ELSE
      LET u        == IF casefold THEN Upper(text) ELSE text
          s        == RStrip(u, "=")
          padchars == Len(u) - Len(s)
          decoded  == DecodeQuanta(s)
          leftover == (43 - 5 * padchars) \div 8
          last     == ToBytes5(LastAcc(s) \o Repeat(0, 5 * padchars))
      IN  IF \E j \in 1..Len(s) : s[j] \notin Range(B32Alphabet)
            THEN Raise("Non-base32 digit found")
          ELSE IF padchars \notin ValidPadChars THEN Raise("Incorrect padding")
          ELSE IF padchars # 0 /\ decoded # <<>>
            THEN Value(SubSeq(decoded, 1, Len(decoded) - 5) \o Take(last, leftover))
          ELSE Value(decoded)

(***************************************************************************)
(* key_check                                                               *)
(***************************************************************************)
\* only the dashes removed
StripDashes(key) == Remove(key, "-")

\* key.replace('-', '').replace(' ', '')
StripSeparators(key) == Remove(Remove(key, "-"), " ")

\* key += '=' * (8 - missing_padding) when missing_padding != 0
RestorePadding(key) ==
    LET missing_padding == Len(key) % 8
    IN  IF missing_padding # 0 THEN key \o Repeat("=", 8 - missing_padding) ELSE key

\* every character outside the Base32 alphabet dropped before decoding
RECURSIVE OnlyBase32(_)
OnlyBase32(key) ==
    IF key = <<>> THEN <<>>
    ELSE IF UpperChar(Head(key)) \in Range(B32Alphabet) \cup {"="}
      THEN <<Head(key)>> \o OnlyBase32(Tail(key))
    ELSE OnlyBase32(Tail(key))

key_check_lenient(key) == B32Decode(RestorePadding(OnlyBase32(key)), TRUE)

key_check(key) == B32Decode(RestorePadding(StripSeparators(key)), TRUE)

(***************************************************************************)
(* Python integers in int_to_bytestring: unbounded, and under & and >> a   *)
(* two's complement number with infinitely many sign bits.  limbs are the  *)
(* base-2^16 digits, least significant first; sign (0 or -1) is the digit  *)
(* repeated above them.                                                    *)
(***************************************************************************)
LimbBase == 2 ^ 16

PyInt(sign, limbs) == [sign |-> sign, limbs |-> limbs]

\* a machine-sized integer (-2^31 <= v < 2^31) as a Python integer
FromInt(v) == PyInt(IF v < 0 THEN -1 ELSE 0, <<v % LimbBase, (v \div LimbBase) % LimbBase>>)

SignLimb(x) == IF x.sign = -1 THEN LimbBase - 1 ELSE 0

\* i != 0
NonZero(x) == x.sign # 0 \/ \E j \in 1..Len(x.limbs) : x.limbs[j] # 0

\* i & 0xFF
LowByte(x) == (IF x.limbs = <<>> THEN SignLimb(x) ELSE x.limbs[1]) % 256

\* i >> 8
Shr8(x) ==
    LET above(j) == IF j < Len(x.limbs) THEN x.limbs[j + 1] ELSE SignLimb(x)
    IN  PyInt(x.sign, [j \in 1..Len(x.limbs) |-> (x.limbs[j] \div 256) + 256 * (above(j) % 256)])

\* bytes.rjust(width, fill)
RJust(s, width, fill) == IF Len(s) >= width THEN s ELSE Repeat(fill, width - Len(s)) \o s

\* the default of int_to_bytestring's parameter padding
Padding == 8

\* the bytes in the order the loop produced them, least significant first
ByteStringUnreversed(result) == RJust(result, Padding, 0)

\* return bytearray(reversed(result)).rjust(padding, b'\0')
ByteString(result) == RJust(Reverse(result), Padding, 0)

(***************************************************************************)
(* hmac.new(key, msg, digestmod).  The hash functions themselves are the   *)
(* standard library's and are not computed here: HMAC is a fixed function  *)
(* of (algorithm, key, message) whose value has the algorithm's digest     *)
(* size; its bytes are an arithmetic progression started and spaced by     *)
(* the three inputs, so that distinct positions hold distinct bytes.       *)
(***************************************************************************)
Algorithms == {"SHA1", "SHA256", "SHA512"}

\* hashlib's digest_size
DigestSize(h_alg) == CASE h_alg = "SHA1" -> 20 [] h_alg = "SHA256" -> 32 [] h_alg = "SHA512" -> 64

RECURSIVE Mix(_)
Mix(bytes) == IF bytes = <<>> THEN 7 ELSE (31 * Mix(Tail(bytes)) + Head(bytes) + 1) % 256

Progression(start, stride, len) == [j \in 1..len |-> (start + stride * j) % 256]

HMAC(h_alg, key, msg) ==
    Progression((Mix(key) + 5 * Mix(msg) + DigestSize(h_alg)) % 256,
                2 * ((Mix(key) + Mix(msg)) % 64) + 37,
                DigestSize(h_alg))

(***************************************************************************)
(* _hmac.hexdigest() and int(..., 16): the digest as an unbounded integer, *)
(* kept as its base-16 digits, most significant first.                     *)
(***************************************************************************)
HexDigits == <<"0", "1", "2", "3", "4", "5", "6", "7",
               "8", "9", "a", "b", "c", "d", "e", "f">>

hexdigest(bytes) ==
    [j \in 1..(2 * Len(bytes)) |->
        IF j % 2 = 1 THEN HexDigits[(bytes[(j + 1) \div 2] \div 16) + 1]
        ELSE HexDigits[(bytes[j \div 2] % 16) + 1]]

\* int(text, 16)
IntFromHex(text) == [j \in 1..Len(text) |-> IndexOf(text[j], HexDigits) - 1]

\* a small non-negative integer as base-16 digits
RECURSIVE ToHex(_)
ToHex(v) == IF v = 0 THEN <<>> ELSE ToHex(v \div 16) \o <<v % 16>>

\* the digits of d from its first non-zero digit on
Significant(d) ==
    LET nz == {j \in 1..Len(d) : d[j] # 0}
    IN  IF nz = {} THEN <<>> ELSE SubSeq(d, CHOOSE j \in nz : \A m \in nz : j <= m, Len(d))

RECURSIVE DigitsValue(_)
DigitsValue(d) == IF d = <<>> THEN 0 ELSE 16 * DigitsValue(SubSeq(d, 1, Len(d) - 1)) + d[Len(d)]

\* the value of a digit sequence whose value fits a machine word
HexValue(d) == DigitsValue(Significant(d))

\* the digit of weight 16^k
DigitAt(d, k) == IF k < Len(d) THEN d[Len(d) - k] ELSE 0

DigitAnd(a, b) == BitsValue([j \in 1..4 |-> Bits(a, 4)[j] * Bits(b, 4)[j]])

\* x & y
And(x, y) ==
    LET w == IF Len(x) > Len(y) THEN Len(x) ELSE Len(y)
    IN  [j \in 1..w |-> DigitAnd(DigitAt(x, w - j), DigitAt(y, w - j))]

\* x << bits and x >> bits, for the shifts of get_key, all multiples of 8
Shl(x, bits) == x \o Repeat(0, bits \div 4)

Shr(x, bits) == SubSeq(x, 1, Len(x) - bits \div 4)

(***************************************************************************)
(* get_key, steps 3 and 4: dynamic truncation                              *)
(***************************************************************************)
\* the literal 20 of the shift (20 - _offset - 4) * 8
ShiftBase == 20

\* _mask = (2**(2*2))-1; _offset = (_hmac_digest >> 0) & _mask
Offset(hmac_digest) == HexValue(And(Shr(hmac_digest, 0), ToHex(2 ^ (2 * 2) - 1)))

TruncShift(hmac_digest) == (ShiftBase - Offset(hmac_digest) - 4) * 8

\* _mask = ((2**(8*4))-1) << shift; _i = (_hmac_digest & _mask) >> shift;
\* _i = _i & 0x7fffffff
Truncate(hmac_digest) ==
    LET mask == Shl(Repeat(15, 8), TruncShift(hmac_digest))
        res  == Shr(And(hmac_digest, mask), TruncShift(hmac_digest))
    IN  HexValue(And(res, <<7, 15, 15, 15, 15, 15, 15, 15>>))

(***************************************************************************)
(* get_key, step 5: the token text                                         *)
(***************************************************************************)
DecimalDigits == <<"0", "1", "2", "3", "4", "5", "6", "7", "8", "9">>

\* str(v) for an integer v >= 0
RECURSIVE Str(_)
Str(v) == IF v < 10 THEN <<DecimalDigits[v + 1]>> ELSE Str(v \div 10) \o <<DecimalDigits[(v % 10) + 1]>>

\* _i % 10**n for n >= 0 and 0 <= _i < 2^31.  10**n is an unbounded integer:
\* from n = 10 on it exceeds every _i, and the remainder is _i itself.
TokenValue(I, n) == IF n > 9 THEN I ELSE I % (10 ^ n)

\* str(_i % 10**n) for n < 0, where 10**n is a float and so is the remainder:
\* the text of that float, written as a text that names it and not digit by digit.
FloatText(I, n) == <<"0", ".">> \o Str(I) \o <<"e", "-">> \o Str(-n)

\* the zeroes appended on the right
ZeroPadRight(token_str, n) ==
    IF Len(token_str) < n THEN token_str \o Repeat("0", n - Len(token_str)) ELSE token_str

\* _token_str = str(_token); if len(_token_str) < n: left-pad with '0'
ZeroPad(token_str, n) ==
    IF Len(token_str) < n THEN Repeat("0", n - Len(token_str)) \o token_str ELSE token_str

TokenText(I, n) == IF n < 0 THEN FloatText(I, n) ELSE ZeroPad(Str(TokenValue(I, n)), n)

(***************************************************************************)
(* get_key, step 1: the counter                                            *)
(***************************************************************************)
Abs(v) == IF v < 0 THEN -v ELSE v

\* the quotient rounded to the nearest integer, as int(round(x / y)) would give
IntQuotientRounded(x, y) ==
    IF (x < 0) # (y < 0) THEN -((2 * Abs(x) + Abs(y)) \div (2 * Abs(y)))
    ELSE (2 * Abs(x) + Abs(y)) \div (2 * Abs(y))

\* int(x / y): the quotient, rounded toward zero.  time.time() is read in whole
\* seconds: with t0 and ti integers, the fraction of a second never moves the
\* integer part of the quotient.
IntQuotient(x, y) ==
    IF (x < 0) # (y < 0) THEN -(Abs(x) \div Abs(y)) ELSE Abs(x) \div Abs(y)

\* _c = int((time.time()-t0)/ti)
Counter(epoch, t0, ti) == FromInt(IntQuotient(epoch - t0, ti))

(***************************************************************************)
(* Bounds of the model                                                     *)
(***************************************************************************)
\* the clock of the specification Spec runs from 0 to MaxNow
MaxNow == 61

\* the clock of the two-caller specification ParSpec runs from 0 to ParMaxNow
ParMaxNow == 2

\* int_to_bytestring is given integers of at most MaxLimbs base-2^16 digits
MaxLimbs == 5

\* the secrets of TypeSpec: a stem and at most MaxTyped typed characters
MaxTyped == 4

\* the secrets of VariantSpec: a canonical secret changed by at most MaxEdits edits
MaxEdits == 2

\* the digit counts of FormatSpec: 1..MaxDigits
MaxDigits == 12

\* the digests of TruncSpec: progressions started at 0..MaxStart
MaxStart == 31

\* the while loop of int_to_bytestring is followed for LoopCap iterations, more
\* than any integer of MaxLimbs digits needs to reach 0
LoopCap == 2 * MaxLimbs + 2

(***************************************************************************)
(* State                                                                   *)
(***************************************************************************)
VARIABLES
    debug,   \* the module-level flag __debug
    now,     \* the system clock, in seconds
    stdout,  \* the diagnostic line that the last step of get_key printed, if any
    frame,   \* for each caller of get_key: its position and its local variables
    text,    \* the secret as entered (TypeSpec, VariantSpec)
    canon,   \* the canonical secret that text is a variant of (VariantSpec)
    edits    \* the number of characters typed or edits made to text

vars == <<debug, now, stdout, frame, text, canon, edits>>

Success(token_str) == [success |-> TRUE, result |-> token_str]

Failure(message) == [success |-> FALSE, message |-> message]

\* a caller that is not inside get_key.  pc is the caller's position: "idle",
\* "loop" (at the while of int_to_bytestring), "hashed" (after line 54),
\* "truncated" (after line 70), "done" (get_key has returned ret[1]).
Idle ==
    [pc |-> "idle", k |-> <<>>, t0 |-> 0, ti |-> 30, h_alg |-> "SHA1", n |-> 6,
     epoch |-> 0, key |-> <<>>, c |-> FromInt(0), i |-> FromInt(0), result |-> <<>>,
     msg |-> <<>>, hmac |-> <<>>, I |-> 0, ret |-> <<>>]

Inputs(ks, t0s, tis, h_algs, ns) == [k |-> ks, t0 |-> t0s, ti |-> tis, h_alg |-> h_algs, n |-> ns]

\* if __debug: print(...)
Echo(line) == IF debug THEN {line} ELSE {}

(***************************************************************************)
(* get_key(k, t0, ti, h_alg, n), in steps                                  *)
(***************************************************************************)
\* result = bytearray() on entry to int_to_bytestring
NewResult == <<>>

\* lines 44-49 and 54 up to the while of int_to_bytestring: key_check, the
\* counter, the call int_to_bytestring(_c); an exception of key_check or of the
\* division goes to the except clause of line 82.
Enter(k, t0, ti, h_alg, n, epoch) ==
    LET args    == [Idle EXCEPT !.k = k, !.t0 = t0, !.ti = ti, !.h_alg = h_alg, !.n = n,
                                !.epoch = epoch]
        decoded == key_check(k)
    IN  IF ~decoded.ok
          THEN [args EXCEPT !.pc = "done", !.ret = <<Failure(decoded.msg)>>]
        ELSE IF ti = 0
          THEN [args EXCEPT !.pc = "done", !.key = decoded.val,
                            !.ret = <<Failure("float division by zero")>>]
        ELSE [args EXCEPT !.pc = "loop", !.key = decoded.val,
                          !.c = Counter(epoch, t0, ti), !.i = Counter(epoch, t0, ti),
                          !.result = NewResult]

Call(p, in) ==
    /\ frame[p].pc = "idle"
    /\ \E k \in in.k, t0 \in in.t0, ti \in in.ti, h_alg \in in.h_alg, n \in in.n :
         /\ frame' = [frame EXCEPT ![p] = Enter(k, t0, ti, h_alg, n, now)]
         /\ stdout' = IF frame'[p].pc = "loop" THEN Echo("C") ELSE {}
    /\ UNCHANGED <<debug, now, text, canon, edits>>

\* lines 27-29, one iteration: while i != 0: result.append(i & 0xFF); i >>= 8
LoopBody(f) == [f EXCEPT !.result = Append(f.result, LowByte(f.i)), !.i = Shr8(f.i)]

\* one bytearray shared by every caller: the append reaches every call in the loop
LoopStepShared(p) ==
    /\ frame[p].pc = "loop"
    /\ NonZero(frame[p].i)
    /\ Len(frame[p].result) < LoopCap
    /\ frame' = [q \in DOMAIN frame |->
                   IF q = p THEN LoopBody(frame[p])
                   ELSE IF frame[q].pc = "loop"
                     THEN [frame[q] EXCEPT !.result = Append(frame[q].result, LowByte(frame[p].i))]
                   ELSE frame[q]]
    /\ stdout' = {}
    /\ UNCHANGED <<debug, now, text, canon, edits>>

LoopStep(p) ==
    /\ frame[p].pc = "loop"
    /\ NonZero(frame[p].i)
    /\ Len(frame[p].result) < LoopCap
    /\ frame' = [frame EXCEPT ![p] = LoopBody(frame[p])]
    /\ stdout' = {}
    /\ UNCHANGED <<debug, now, text, canon, edits>>

\* line 33 and line 54: the return of int_to_bytestring and hmac.new
Hashed(f) ==
    [f EXCEPT !.pc = "hashed", !.msg = ByteString(f.result),
              !.hmac = HMAC(f.h_alg, f.key, ByteString(f.result))]

Hash(p) ==
    /\ frame[p].pc = "loop"
    /\ ~NonZero(frame[p].i)
    /\ frame' = [frame EXCEPT ![p] = Hashed(frame[p])]
    /\ stdout' = Echo("H")
    /\ UNCHANGED <<debug, now, text, canon, edits>>

\* lines 56-71
Truncated(f) == [f EXCEPT !.pc = "truncated", !.I = Truncate(IntFromHex(hexdigest(f.hmac)))]

Trunc(p) ==
    /\ frame[p].pc = "hashed"
    /\ frame' = [frame EXCEPT ![p] = Truncated(frame[p])]
    /\ stdout' = Echo("O")
    /\ UNCHANGED <<debug, now, text, canon, edits>>

\* lines 75-81
Returned(f) == [f EXCEPT !.pc = "done", !.ret = <<Success(TokenText(f.I, f.n))>>]

Format(p) ==
    /\ frame[p].pc = "truncated"
    /\ frame' = [frame EXCEPT ![p] = Returned(frame[p])]
    /\ stdout' = Echo("token")
    /\ UNCHANGED <<debug, now, text, canon, edits>>

\* the caller takes the outcome; its next call starts from fresh local variables
Return(p) ==
    /\ frame[p].pc = "done"
    /\ frame' = [frame EXCEPT ![p] = Idle]
    /\ UNCHANGED <<debug, now, stdout, text, canon, edits>>

(***************************************************************************)
(* The environment: the clock and the flag                                 *)
(***************************************************************************)
Tick(max) ==
    /\ now < max
    /\ now' = now + 1
    /\ UNCHANGED <<debug, stdout, frame, text, canon, edits>>

\* __debug = _args.verbose (line 106), or any other assignment to the flag
SetDebug ==
    /\ debug' = ~debug
    /\ UNCHANGED <<now, stdout, frame, text, canon, edits>>

(***************************************************************************)
(* Spec: one caller, calling get_key again and again while the clock runs. *)
(* get_key reads the clock once (line 48); the seconds that pass during a  *)
(* call change nothing it computes, and the clock is advanced between      *)
(* calls.                                                                  *)
(***************************************************************************)
Secrets == {<<>>, <<"-", " ">>, <<"M", "Z">>, <<"M", "1">>}

SpecInputs == Inputs(Secrets, {0, 45}, {-30, 0, 1, 30}, {"SHA1"}, {-1, 0, 6})

Init ==
    /\ debug \in BOOLEAN
    /\ now = 0
    /\ stdout = {}
    /\ frame = [p \in {"a"} |-> Idle]
    /\ text = <<>>
    /\ canon = <<>>
    /\ edits = 0

Next ==
    \/ Call("a", SpecInputs)
    \/ LoopStep("a")
    \/ Hash("a")
    \/ Trunc("a")
    \/ Format("a")
    \/ Return("a")
    \/ frame["a"].pc = "idle" /\ Tick(MaxNow)

Spec == Init /\ [][Next]_vars

(***************************************************************************)
(* Properties of get_key under Spec                                        *)
(***************************************************************************)
Callers == DOMAIN frame

\* the value of a Python integer of two limbs
IntOf(x) == x.limbs[1] + LimbBase * (x.limbs[2] + x.sign * LimbBase)

\* the call of caller p has computed its counter _c
HasCounter(p) ==
    \/ frame[p].pc \in {"loop", "hashed", "truncated"}
    \/ frame[p].pc = "done" /\ frame[p].ret[1].success

IsSuccess(r) == DOMAIN r = {"success", "result"} /\ r.success = TRUE

IsFailure(r) == DOMAIN r = {"success", "message"} /\ r.success = FALSE

\* C2: every call of get_key, whatever its arguments and the clock, returns
\* exactly one outcome, a success {success: True, result} or a failure
\* {success: False, message}, and never loops forever: a call that has returned
\* holds one outcome of one of the two shapes, and a call under way is never at
\* the while loop of int_to_bytestring with a non-zero i that the loop body maps
\* to itself (from there the loop condition stays true for ever).
C2_DefiniteOutcome ==
    \A p \in Callers :
        /\ frame[p].pc = "done" =>
              /\ Len(frame[p].ret) = 1
              /\ IsSuccess(frame[p].ret[1]) \/ IsFailure(frame[p].ret[1])
        /\ frame[p].pc = "loop" =>
              ~(NonZero(frame[p].i) /\ Shr8(frame[p].i) = frame[p].i)

\* C4: for epoch >= t0 and step >= 1 the counter of get_key is
\* floor((epoch - t0) / step); it is no smaller than the counter of any earlier
\* epoch >= t0, and between two consecutive epochs it changes exactly when the
\* later one is a multiple of step past t0.
C4_CounterIsFloor ==
    \A p \in Callers :
        LET f == frame[p]
            counter(e) == IntOf(Counter(e, f.t0, f.ti))
        IN  (HasCounter(p) /\ f.epoch >= f.t0 /\ f.ti >= 1) =>
              /\ IntOf(f.c) = (f.epoch - f.t0) \div f.ti
              /\ \A e \in f.t0..f.epoch : counter(e) <= IntOf(f.c)
              /\ \A e \in f.t0..(f.epoch - 1) :
                    (counter(e + 1) # counter(e)) <=> ((e + 1 - f.t0) % f.ti = 0)

\* a call at epoch 59 with t0 = 0 and step 30 has handed counter 1 to the HMAC
C4_Witness ==
    \E p \in Callers :
        /\ frame[p].pc = "hashed"
        /\ frame[p].t0 = 0 /\ frame[p].ti = 30 /\ frame[p].epoch = 59
        /\ IntOf(frame[p].c) = 1

\* the arguments of caller p other than the digit count are valid: the secret
\* decodes to at least one byte, the step is positive and the clock is not
\* before t0
OtherwiseValid(p) ==
    /\ key_check(frame[p].k).ok
    /\ key_check(frame[p].k).val # <<>>
    /\ frame[p].ti >= 1
    /\ frame[p].epoch >= frame[p].t0

\* C7: a digit count n <= 0, with otherwise valid arguments, gives a failure
\* outcome and never a success.
C7_NonPositiveDigitsRejected ==
    \A p \in Callers :
        (frame[p].pc = "done" /\ frame[p].n <= 0 /\ OtherwiseValid(p)) =>
            ~frame[p].ret[1].success

\* C8: a secret that decodes to zero key bytes (the empty text, or separators
\* only) gives a failure outcome and never a success.
C8_EmptyKeyRejected ==
    \A p \in Callers :
        (frame[p].pc = "done" /\ StripSeparators(frame[p].k) = <<>>) =>
            ~frame[p].ret[1].success

(***************************************************************************)
(* TruncSpec: get_key from line 56 on, for digests of the three sizes      *)
(***************************************************************************)
Strides == {1, 37, 83}

TruncInit ==
    /\ debug = FALSE
    /\ now = 0
    /\ stdout = {}
    /\ \E h_alg \in Algorithms, start \in 0..MaxStart, stride \in Strides :
         frame = [p \in {"a"} |->
                    [Idle EXCEPT !.pc = "hashed", !.h_alg = h_alg, !.key = <<102>>,
                                 !.msg = ByteString(<<>>),
                                 !.hmac = Progression(start, stride, DigestSize(h_alg))]]
    /\ text = <<>>
    /\ canon = <<>>
    /\ edits = 0

TruncNext == Trunc("a") \/ Format("a")

TruncSpec == TruncInit /\ [][TruncNext]_vars

\* C1: for a digest of 20, 32 or 64 bytes, with O the low 4 bits of its last
\* byte, the truncated value I is the 4 bytes at indices O..O+3, counted from the
\* first byte, read as a big-endian 32-bit integer, with the top bit cleared.
C1_DynamicTruncation ==
    \A p \in Callers :
        LET f == frame[p]
            O == f.hmac[Len(f.hmac)] % 16
        IN  f.pc \in {"truncated", "done"} =>
              f.I = (f.hmac[O + 1] % 128) * 2 ^ 24 + f.hmac[O + 2] * 2 ^ 16
                    + f.hmac[O + 3] * 2 ^ 8 + f.hmac[O + 4]

(***************************************************************************)
(* FormatSpec: get_key from line 75 on, for truncated values and digit     *)
(* counts 1..MaxDigits                                                     *)
(***************************************************************************)
TruncatedValues ==
    {10 ^ e - 1 : e \in 0..9} \cup {10 ^ e : e \in 0..9} \cup {706162890, 2 ^ 30, 2147483647}

FormatInit ==
    /\ debug = FALSE
    /\ now = 0
    /\ stdout = {}
    /\ \E I \in TruncatedValues, n \in 1..MaxDigits :
         frame = [p \in {"a"} |-> [Idle EXCEPT !.pc = "truncated", !.I = I, !.n = n]]
    /\ text = <<>>
    /\ canon = <<>>
    /\ edits = 0

FormatNext == Format("a")

FormatSpec == FormatInit /\ [][FormatNext]_vars

\* the decimal digit of weight 10^e of a value below 2^31
DigitOfWeight(v, e) == IF e > 9 THEN 0 ELSE (v \div 10 ^ e) % 10

\* C3: for a truncated value I and a digit count n >= 1, the token returned has
\* exactly n characters, all of them '0'..'9', and reads as I mod 10^n: its
\* character of weight 10^e is the digit of that weight of I (0 above I's
\* digits), for every e < n.
C3_TokenFormat ==
    \A p \in Callers :
        LET f == frame[p]
        IN  (f.pc = "done" /\ f.n >= 1) =>
              /\ IsSuccess(f.ret[1])
              /\ Len(f.ret[1].result) = f.n
              /\ \A j \in 1..Len(f.ret[1].result) :
                    /\ f.ret[1].result[j] \in Range(DecimalDigits)
                    /\ f.ret[1].result[j] = DecimalDigits[DigitOfWeight(f.I, f.n - j) + 1]

\* 8 digits asked of a value of 5 digits, and 12 digits asked of the largest value
C3_Witness ==
    \E p \in Callers :
        /\ frame[p].pc = "done"
        /\ \/ frame[p].n = 8 /\ frame[p].I = 99999
              /\ frame[p].ret[1].result = <<"0", "0", "0", "9", "9", "9", "9", "9">>
           \/ frame[p].n = 12 /\ frame[p].I = 2147483647

(***************************************************************************)
(* EncodeSpec: int_to_bytestring(c) for integers c >= 0 of up to MaxLimbs  *)
(* base-2^16 digits, from the while loop to the call of hmac.new           *)
(***************************************************************************)
LimbValues == {0, 1, 256, LimbBase - 1}

EncodeInit ==
    /\ debug = FALSE
    /\ now = 0
    /\ stdout = {}
    /\ \E len \in 0..MaxLimbs :
         \E limbs \in [1..len -> LimbValues] :
            frame = [p \in {"a"} |->
                       [Idle EXCEPT !.pc = "loop", !.key = <<102>>, !.c = PyInt(0, limbs),
                                    !.i = PyInt(0, limbs), !.result = NewResult]]
    /\ text = <<>>
    /\ canon = <<>>
    /\ edits = 0

EncodeNext == LoopStep("a") \/ Hash("a")

EncodeSpec == EncodeInit /\ [][EncodeNext]_vars

RECURSIVE StripZeros(_)
StripZeros(bytes) ==
    IF bytes # <<>> /\ Head(bytes) = 0 THEN StripZeros(Tail(bytes)) ELSE bytes

\* the big-endian bytes of an integer x >= 0, without leading zero bytes
MinimalBytes(x) ==
    LET w == Len(x.limbs)
    IN  StripZeros([j \in 1..(2 * w) |->
                      IF j % 2 = 1 THEN x.limbs[w - (j - 1) \div 2] \div 256
                      ELSE x.limbs[w + 1 - j \div 2] % 256])

Stems == {<<>>, <<"M", "Z", "X", "W", "6">>}

Keyboard == {"M", "z", "1", "=", "-", " "}

Type(ch) ==
    /\ frame["a"].pc = "idle"
    /\ edits < MaxTyped
    /\ text' = Append(text, ch)
    /\ edits' = edits + 1
    /\ UNCHANGED <<debug, now, stdout, frame, canon>>

TypeInit ==
    /\ debug = FALSE
    /\ now = 59
    /\ stdout = {}
    /\ frame = [p \in {"a"} |-> Idle]
    /\ text \in Stems
    /\ canon = <<>>
    /\ edits = 0

TypeNext ==
    \/ \E ch \in Keyboard : Type(ch)
    \/ Call("a", Inputs({text}, {0}, {30}, {"SHA1"}, {6}))
    \/ LoopStep("a")
    \/ Hash("a")
    \/ Trunc("a")
    \/ Format("a")

TypeSpec == TypeInit /\ [][TypeNext]_vars

Base32Chars == Range(UpperCase) \cup Range(LowerCase) \cup {"2", "3", "4", "5", "6", "7"}

\* a padded Base32 text: whole groups of 8 characters, all of the alphabet, then
\* 0, 1, 3, 4 or 6 '=' and nothing after them
WellFormed(s) ==
    /\ Len(s) % 8 = 0
    /\ \E body \in 0..Len(s) :
          /\ \A j \in 1..body : s[j] \in Base32Chars
          /\ \A j \in (body + 1)..Len(s) : s[j] = "="
          /\ Len(s) - body \in {0, 1, 3, 4, 6}

\* the secret of caller p with its separators removed and its padding restored
Cleaned(p) ==
    LET bare == [j \in 1..Len(frame[p].k) |-> frame[p].k[j]]
        kept == {j \in 1..Len(bare) : bare[j] \notin {"-", " "}}
        nth(m) == CHOOSE j \in kept : Cardinality({h \in kept : h < j}) = m - 1
        body == [m \in 1..Cardinality(kept) |-> bare[nth(m)]]
    IN  body \o Repeat("=", (8 - (Len(body) % 8)) % 8)

\* C5: a secret that, with its spaces and dashes removed and its padding
\* restored, holds a character outside the Base32 alphabet or is wrongly padded
\* gives a failure outcome and never a token.
C5_InvalidSecretRejected ==
    \A p \in Callers :
        (frame[p].pc # "idle" /\ ~WellFormed(Cleaned(p))) =>
            /\ frame[p].pc = "done"
            /\ IsFailure(frame[p].ret[1])

\* rejected: a secret with the digit 1, and a secret that needs 5 '=' of padding
C5_Witness ==
    \E p \in Callers :
        /\ frame[p].pc = "done"
        /\ IsFailure(frame[p].ret[1])
        /\ \/ frame[p].k = <<"M", "Z", "X", "W", "6", "-", "1">>
           \/ frame[p].k = <<"M", "z", " ", "M">>

(***************************************************************************)
(* VariantSpec: a canonical secret is edited (separators inserted, letters *)
(* lowered, padding removed) and handed to get_key                         *)
(***************************************************************************)
Canonical ==
    { <<>>,
      <<"M", "Z", "=", "=", "=", "=", "=", "=">>,
      <<"M", "Z", "X", "W", "=", "=", "=", "=">>,
      <<"M", "Z", "X", "W", "6", "=", "=", "=">>,
      <<"M", "Z", "X", "W", "6", "Y", "Q", "=">>,
      <<"M", "Z", "X", "W", "6", "Y", "T", "B">>,
      <<"M", "Z", "X", "W", "6", "Y", "T", "B", "O", "I", "=", "=", "=", "=", "=", "=">> }

Edit(variant) ==
    /\ frame["a"].pc = "idle"
    /\ edits < MaxEdits
    /\ text' = variant
    /\ edits' = edits + 1
    /\ UNCHANGED <<debug, now, stdout, frame, canon>>

\* a space or a dash inserted at any position
InsertSeparator ==
    \E at \in 0..Len(text), ch \in {"-", " "} :
        Edit(SubSeq(text, 1, at) \o <<ch>> \o SubSeq(text, at + 1, Len(text)))

\* one letter, or every letter, changed to lower case
ChangeCase ==
    \/ \E at \in 1..Len(text) :
          /\ text[at] \in Range(UpperCase)
          /\ Edit([text EXCEPT ![at] = LowerChar(text[at])])
    \/ text # Lower(text) /\ Edit(Lower(text))

\* some or all of the trailing '=' removed
RemovePadding ==
    \E m \in 1..Len(text) :
        /\ \A j \in m..Len(text) : text[j] = "="
        /\ Edit(SubSeq(text, 1, m - 1))

VariantInit ==
    /\ debug = FALSE
    /\ now = 59
    /\ stdout = {}
    /\ frame = [p \in {"a"} |-> Idle]
    /\ canon \in Canonical
    /\ text = canon
    /\ edits = 0

VariantNext ==
    \/ InsertSeparator
    \/ ChangeCase
    \/ RemovePadding
    \/ Call("a", Inputs({text}, {0}, {30}, {"SHA1"}, {6}))

VariantSpec == VariantInit /\ [][VariantNext]_vars

\* C6: key_check of any variant of a valid canonical secret (separators
\* inserted, letters lowered, trailing padding removed) gives the key bytes that
\* Base32-decoding the canonical secret gives.
C6_DecoderNormalisation ==
    \A p \in Callers :
        frame[p].pc # "idle" =>
            /\ B32Decode(canon, FALSE).ok
            /\ frame[p].pc = "loop"
            /\ frame[p].key = B32Decode(canon, FALSE).val

\* a variant in lower case with a space in it has been decoded to 3 bytes
C6_Witness ==
    \E p \in Callers :
        /\ frame[p].pc = "loop"
        /\ canon = <<"M", "Z", "X", "W", "6", "=", "=", "=">>
        /\ text = <<"m", "z", " ", "x", "w", "6", "=", "=", "=">>
        /\ frame[p].key = <<102, 111, 111>>

(***************************************************************************)
(* ParSpec: two callers inside get_key at the same time, the flag __debug  *)
(* set and cleared at any moment                                           *)
(***************************************************************************)
ParInputs == Inputs({<<"M", "Z">>, <<"M", "1">>}, {0}, {1, 2}, {"SHA1"}, {0, 6})

ParInit ==
    /\ debug \in BOOLEAN
    /\ now = 0
    /\ stdout = {}
    /\ frame = [p \in {"a", "b"} |-> Idle]
    /\ text = <<>>
    /\ canon = <<>>
    /\ edits = 0

ParNext ==
    \/ \E p \in {"a", "b"} : Call(p, ParInputs)
    \/ \E p \in {"a", "b"} : LoopStep(p)
    \/ \E p \in {"a", "b"} : Hash(p)
    \/ \E p \in {"a", "b"} : Trunc(p)
    \/ \E p \in {"a", "b"} : Format(p)
    \/ \E p \in {"a", "b"} : Return(p)
    \/ SetDebug
    \/ Tick(ParMaxNow)

ParSpec == ParInit /\ [][ParNext]_vars

SameArguments(p, q) ==
    /\ frame[p].k = frame[q].k
    /\ frame[p].t0 = frame[q].t0
    /\ frame[p].ti = frame[q].ti
    /\ frame[p].h_alg = frame[q].h_alg
    /\ frame[p].n = frame[q].n

\* the clock readings of the two calls fall in the same time step
SameStep(p, q) ==
    (frame[p].epoch - frame[p].t0) \div frame[p].ti = (frame[q].epoch - frame[q].t0) \div frame[q].ti

Deterministic ==
    \A p, q \in Callers :
        (frame[p].pc = "done" /\ frame[q].pc = "done" /\ SameArguments(p, q) /\ SameStep(p, q))
            => frame[p].ret = frame[q].ret

\* a step that changes the local variables of a caller changes those of no
\* other caller and leaves the flag as it is
Independent ==
    \A p \in Callers :
        frame'[p] # frame[p] =>
            /\ debug' = debug
            /\ \A q \in Callers \ {p} : frame'[q] = frame[q]

\* C9: two calls of get_key with the same arguments whose clock readings give
\* the same counter return the same outcome, whatever the flag __debug was and
\* whatever the other caller did before or meanwhile; and a step of get_key
\* writes nothing that another call reads: not the flag, not the other caller's
\* variables.
C9_CallsIndependent == []Deterministic /\ [][Independent]_vars

\* both callers have returned the same token for the same arguments, one having
\* read the clock at 0 and the other at 1, within one step of 2 seconds
C9_Witness ==
    /\ frame["a"].pc = "done" /\ frame["b"].pc = "done"
    /\ SameArguments("a", "b")
    /\ frame["a"].ti = 2 /\ frame["a"].epoch = 0 /\ frame["b"].epoch = 1
    /\ IsSuccess(frame["a"].ret[1])
    /\ frame["a"].ret = frame["b"].ret

====
